---- MODULE Spec2Model ----
(***************************************************************************)
(* Model of src/app.py: PageCapturer.capture_full_page (scroll, snapshot,  *)
(* crop, stitch, temp-file cleanup) driven by main's worklist loop.        *)
(*                                                                         *)
(* An image is a record [none, width, rows]; rows is the sequence of its   *)
(* pixel rows from top to bottom, each named by what it shows: a document  *)
(* row number 0..H-1, PastEnd (the browser painted nothing there: past the *)
(* document's end) or Unpainted (black fill of Image.new or of a crop      *)
(* outside the image).                                                     *)
(***************************************************************************)
EXTENDS Integers, Sequences, FiniteSets, TLC

\* ---------------------------------------------------------------- bounds
MaxH == 5        \* document heights 0..MaxH
MaxS == 3        \* snapshot heights 1..MaxS
MaxW == 2        \* widths 1..MaxW
NPages == 2      \* rows of the worklist (URLs.xlsx)
MaxOdd == 1      \* snapshots per call whose height differs from the cached one

\* ------------------------------------------------------- values and images
None == 0        \* Python None / falsy value of actual_screenshot_height
PastEnd == -2
Unpainted == -1

Min(a, b) == IF a < b THEN a ELSE b
Max(a, b) == IF a > b THEN a ELSE b

NoImage == [none |-> TRUE, width |-> 0, rows |-> <<>>]
Img(w, rows) == [none |-> FALSE, width |-> w, rows |-> rows]

\* Image.new('RGB', (w, h)): a black canvas
ImageNew(w, h) == Img(w, [k \in 1..h |-> Unpainted])

\* img.crop((left, upper, right, lower)): rows upper..lower-1; PIL fills what
\* lies outside the image with black
Crop(img, left, upper, right, lower) ==
    Img(right - left,
        [k \in 1..(lower - upper) |->
            IF upper + k \in 1..Len(img.rows) THEN img.rows[upper + k] ELSE Unpainted])

\* final_image.paste(img, (0, y)): img's rows over the canvas from row y on,
\* clipped to the canvas
Paste(canvas, img, y) ==
    Img(canvas.width,
        [k \in 1..Len(canvas.rows) |->
            IF (k - 1 >= y) /\ (k - 1 < y + Len(img.rows))
            THEN img.rows[k - y] ELSE canvas.rows[k]])

\* window.scrollTo(0, o) on a document of height H in a surface of height h:
\* the browser clamps the scroll position to [0, max(0, H - h)]
ScrollClamp(o, H, h) == Max(0, Min(o, Max(0, H - h)))

\* driver.save_screenshot at scroll position pos: h rows from pos on, the rows
\* past the document's end not painted
Snapshot(pos, h, H, w) ==
    Img(w, [k \in 1..h |-> IF pos + k - 1 < H THEN pos + k - 1 ELSE PastEnd])

\* ------------------------------------------------------------ file names
TestPath == [kind |-> "test", crf |-> 0, idx |-> 0]
TempPath(crf, i) == [kind |-> "temp", crf |-> crf, idx |-> i]
FinalPath(crf) == [kind |-> "final", crf |-> crf, idx |-> 0]
PngPath(crf) == [kind |-> "png", crf |-> crf, idx |-> 0]
PdfPath(crf) == [kind |-> "pdf", crf |-> crf, idx |-> 0]
MergedPath == [kind |-> "merged", crf |-> 0, idx |-> 0]

\* The file system is the set `files` of the paths that exist. `content` holds
\* the images of the files the current call has written: the only files the
\* program ever opens (test_screenshot.png is rewritten before it is opened,
\* the temp names carry the row's CRF name).
WriteFile(fs, path, img) == (path :> img) @@ fs
SeqRange(s) == {s[k] : k \in 1..Len(s)}

\* ------------------------------------------------- the code's arithmetic
DiscoveryNeededAlways(h) == TRUE
\* line 140: if not self.actual_screenshot_height
DiscoveryNeeded(h) == h = None

FullScrollOffsetNext(k, S) == (k + 1) * S
\* line 154: window.scrollTo(0, i * S)
FullScrollOffset(k, S) == k * S

FinalScrollOffsetTop(H, S) == (H \div S) * S
\* line 162: window.scrollTo(0, full_height - S)
FinalScrollOffset(H, S) == H - S

HasScreenshotsAlways(s) == TRUE
\* line 173: if screenshots
HasScreenshots(s) == s # <<>>

PasteHeightUnclamped(imgH, H, y) == imgH
\* line 180: paste_height = min(img.height, full_height - y_offset)
PasteHeight(imgH, H, y) == Min(imgH, H - y)

AfterExceptBreak == "finish"
\* line 252: continue
AfterExcept == "loop"

VARIABLES
    pc,                        \* position in main / capture_full_page
    files,                     \* the file system: the paths that exist
    content,                   \* path -> image, of the current call's files
    row,                       \* index of the worklist row being processed
    pdf_files,                 \* main's list of produced PDFs (by row)
    actual_screenshot_height,  \* PageCapturer's cached snapshot height
    full_width, full_height,   \* line 137
    num_full_scrolls, remaining_height, screenshots,   \* lines 147-149
    i,                         \* loop variable of line 153
    final_image, y_offset, idx,\* lines 174-176
    stitched,                  \* value returned by capture_full_page
    raising,                   \* an exception is propagating
    \* history of the current call / run, read by the properties only
    scrolls,                   \* offsets passed to window.scrollTo, in order
    heights,                   \* heights of the snapshots taken, in order
    pastes,                    \* <<y_offset, paste_height>> of each paste
    recropped,                 \* the crop of line 179 changed the image
    written,                   \* temp paths written by the current call
    discoveryRuns, heightWrites,
    status                     \* per row: what became of it

vars == <<pc, files, content, row, pdf_files, actual_screenshot_height,
          full_width, full_height, num_full_scrolls, remaining_height,
          screenshots, i, final_image, y_offset, idx, stitched, raising,
          scrolls, heights, pastes, recropped, written, discoveryRuns,
          heightWrites, status>>

callVars == <<full_width, full_height, num_full_scrolls, remaining_height,
              screenshots, i, final_image, y_offset, idx, stitched>>
histVars == <<scrolls, heights, pastes, recropped, written>>
mainVars == <<row, pdf_files, status>>
discVars == <<actual_screenshot_height, discoveryRuns, heightWrites>>

Pages == 1..NPages

Init ==
    /\ pc = "loop"
    /\ \E old \in SUBSET Pages : files = {PdfPath(c) : c \in old}
    /\ content = <<>>
    /\ row = 0
    /\ pdf_files = <<>>
    /\ actual_screenshot_height = None
    /\ full_width = 0 /\ full_height = 0
    /\ num_full_scrolls = 0 /\ remaining_height = 0 /\ screenshots = <<>>
    /\ i = 0
    /\ final_image = NoImage /\ y_offset = 0 /\ idx = 0
    /\ stitched = NoImage
    /\ raising = FALSE
    /\ scrolls = <<>> /\ heights = <<>> /\ pastes = <<>>
    /\ recropped = FALSE
    /\ written = {}
    /\ discoveryRuns = 0 /\ heightWrites = 0
    /\ status = [p \in Pages |-> "pending"]

\* The locals of capture_full_page and of the loop body, and the call's
\* history, start afresh with each row and are gone when the row is done
ResetCall ==
    /\ full_width' = 0 /\ full_height' = 0
    /\ num_full_scrolls' = 0 /\ remaining_height' = 0 /\ screenshots' = <<>>
    /\ i' = 0
    /\ final_image' = NoImage /\ y_offset' = 0 /\ idx' = 0
    /\ stitched' = NoImage
    /\ scrolls' = <<>> /\ heights' = <<>> /\ pastes' = <<>>
    /\ recropped' = FALSE
    /\ written' = {}
    /\ content' = <<>>

\* The heights a snapshot of the current call can have: the cached height, or
\* any other one while fewer than MaxOdd snapshots of the call differed from it
SnapshotHeights ==
    {actual_screenshot_height} \cup
    (IF Cardinality({k \in 1..Len(heights) :
                        heights[k] # actual_screenshot_height}) < MaxOdd
     THEN 1..MaxS ELSE {})

\* ------------------------------------------------------------------ main
\* lines 228-236: next row; a row whose PDF exists is listed and skipped
LoopSkip ==
    /\ pc = "loop" /\ row < NPages
    /\ PdfPath(row + 1) \in files
    /\ row' = row + 1
    /\ pdf_files' = Append(pdf_files, row + 1)
    /\ status' = [status EXCEPT ![row + 1] = "skipped"]
    /\ UNCHANGED <<pc, files, content, raising>>
    /\ UNCHANGED <<callVars, histVars, discVars>>

\* lines 228-240: next row; prepare_page(url) returns or raises
LoopPrepare ==
    /\ pc = "loop" /\ row < NPages
    /\ PdfPath(row + 1) \notin files
    /\ row' = row + 1
    /\ \/ /\ pc' = "dims" /\ raising' = FALSE
          /\ status' = [status EXCEPT ![row + 1] = "capturing"]
       \/ /\ pc' = "except" /\ raising' = TRUE
          /\ status' = [status EXCEPT ![row + 1] = "failed"]
    /\ UNCHANGED <<files, content, pdf_files>>
    /\ UNCHANGED <<callVars, histVars, discVars>>

\* ----------------------------------------------------- capture_full_page
\* line 137: get_page_dimensions() returns [width, height] or raises
GetDims ==
    /\ pc = "dims"
    /\ \/ /\ \E w \in 1..MaxW, h \in 0..MaxH :
                full_width' = w /\ full_height' = h
          /\ pc' = "discover"
          /\ UNCHANGED <<raising, status>>
       \/ /\ pc' = "except" /\ raising' = TRUE
          /\ status' = [status EXCEPT ![row] = "failed"]
          /\ UNCHANGED <<full_width, full_height>>
    /\ UNCHANGED <<files, content, row, pdf_files, num_full_scrolls,
                   remaining_height, screenshots, i, final_image, y_offset,
                   idx, stitched>>
    /\ UNCHANGED <<histVars, discVars>>

\* line 140, height already known: the discovery is skipped
DiscoverSkip ==
    /\ pc = "discover"
    /\ ~DiscoveryNeeded(actual_screenshot_height)
    /\ pc' = "plan"
    /\ UNCHANGED <<files, content, raising>>
    /\ UNCHANGED <<callVars, histVars, mainVars, discVars>>

\* lines 140-142: save_screenshot(test_path) writes the file or raises
DiscoverShot ==
    /\ pc = "discover"
    /\ DiscoveryNeeded(actual_screenshot_height)
    /\ discoveryRuns' = discoveryRuns + 1
    /\ \/ /\ \E h \in 1..MaxS :
                content' = WriteFile(content, TestPath,
                                     Snapshot(0, h, full_height, full_width))
          /\ files' = files \cup {TestPath}
          /\ written' = written \cup {TestPath}
          /\ pc' = "measure"
          /\ UNCHANGED <<raising, status>>
       \/ /\ pc' = "except" /\ raising' = TRUE
          /\ status' = [status EXCEPT ![row] = "failed"]
          /\ UNCHANGED <<files, content, written>>
    /\ UNCHANGED <<row, pdf_files, actual_screenshot_height, heightWrites,
                   scrolls, heights, pastes, recropped>>
    /\ UNCHANGED callVars

\* lines 143-144: Image.open(test_path); the height is cached; or it raises
DiscoverMeasure ==
    /\ pc = "measure"
    /\ \/ /\ actual_screenshot_height' = Len(content[TestPath].rows)
          /\ heightWrites' = heightWrites + 1
          /\ pc' = "remove"
          /\ UNCHANGED <<raising, status>>
       \/ /\ pc' = "except" /\ raising' = TRUE
          /\ status' = [status EXCEPT ![row] = "failed"]
          /\ UNCHANGED <<actual_screenshot_height, heightWrites>>
    /\ UNCHANGED <<files, content, row, pdf_files, discoveryRuns>>
    /\ UNCHANGED <<callVars, histVars>>

\* line 145: os.remove(test_path)
DiscoverRemove ==
    /\ pc = "remove"
    /\ files' = files \ {TestPath}
    /\ pc' = "plan"
    /\ UNCHANGED <<content, raising>>
    /\ UNCHANGED <<callVars, histVars, mainVars, discVars>>

\* lines 147-149, and the entry of the loop of line 153
Plan ==
    /\ pc = "plan"
    /\ num_full_scrolls' = full_height \div actual_screenshot_height
    /\ remaining_height' = full_height % actual_screenshot_height
    /\ screenshots' = <<>>
    /\ i' = 0
    /\ pc' = IF full_height \div actual_screenshot_height > 0
             THEN "full" ELSE "leftover"
    /\ UNCHANGED <<files, content, raising, full_width, full_height,
                   final_image, y_offset, idx, stitched>>
    /\ UNCHANGED <<histVars, mainVars, discVars>>

\* lines 153-158: one full scroll: scrollTo, save_screenshot, append
FullSlice ==
    /\ pc = "full" /\ i < num_full_scrolls
    /\ LET o == FullScrollOffset(i, actual_screenshot_height)
           path == TempPath(row, i)
       IN \/ \* scrollTo raises
             /\ pc' = "finally" /\ raising' = TRUE
             /\ UNCHANGED <<files, content, screenshots, i, scrolls, heights,
                            written>>
          \/ \* save_screenshot raises before the file is written
             /\ scrolls' = Append(scrolls, o)
             /\ pc' = "finally" /\ raising' = TRUE
             /\ UNCHANGED <<files, content, screenshots, i, heights, written>>
          \/ \E h \in SnapshotHeights :
                /\ scrolls' = Append(scrolls, o)
                /\ heights' = Append(heights, h)
                /\ content' = WriteFile(content, path,
                       Snapshot(ScrollClamp(o, full_height, h), h, full_height,
                                full_width))
                /\ files' = files \cup {path}
                /\ written' = written \cup {path}
                /\ screenshots' = Append(screenshots, path)
                /\ i' = i + 1
                /\ pc' = IF i + 1 < num_full_scrolls THEN "full" ELSE "leftover"
                /\ UNCHANGED raising
    /\ UNCHANGED <<full_width, full_height, num_full_scrolls, remaining_height,
                   final_image, y_offset, idx, stitched, pastes, recropped>>
    /\ UNCHANGED <<mainVars, discVars>>

\* line 161, nothing left over
LeftoverSkip ==
    /\ pc = "leftover"
    /\ ~(remaining_height > 0)
    /\ pc' = "stitch"
    /\ UNCHANGED <<files, content, raising>>
    /\ UNCHANGED <<callVars, histVars, mainVars, discVars>>

\* lines 161-165: the leftover part: scrollTo(H - S), save_screenshot(final_path)
FinalShot ==
    /\ pc = "leftover"
    /\ remaining_height > 0
    /\ LET o == FinalScrollOffset(full_height, actual_screenshot_height)
       IN \/ /\ pc' = "finally" /\ raising' = TRUE
             /\ UNCHANGED <<files, content, scrolls, heights, written>>
          \/ /\ scrolls' = Append(scrolls, o)
             /\ pc' = "finally" /\ raising' = TRUE
             /\ UNCHANGED <<files, content, heights, written>>
          \/ \E h \in SnapshotHeights :
                /\ scrolls' = Append(scrolls, o)
                /\ heights' = Append(heights, h)
                /\ content' = WriteFile(content, FinalPath(row),
                       Snapshot(ScrollClamp(o, full_height, h), h, full_height,
                                full_width))
                /\ files' = files \cup {FinalPath(row)}
                /\ written' = written \cup {FinalPath(row)}
                /\ pc' = "crop"
                /\ UNCHANGED raising
    /\ UNCHANGED <<pastes, recropped>>
    /\ UNCHANGED <<callVars, mainVars, discVars>>

\* lines 166-170: the final snapshot is cut to its bottom remaining_height
\* rows, saved over itself and only then appended to screenshots
FinalCrop ==
    /\ pc = "crop"
    /\ LET img == content[FinalPath(row)]
           crop_y == Len(img.rows) - remaining_height
       IN \/ /\ content' = WriteFile(content, FinalPath(row),
                              Crop(img, 0, crop_y, img.width, Len(img.rows)))
             /\ screenshots' = Append(screenshots, FinalPath(row))
             /\ pc' = "stitch"
             /\ UNCHANGED raising
          \/ \* Image.open, crop or save raises
             /\ pc' = "finally" /\ raising' = TRUE
             /\ UNCHANGED <<content, screenshots>>
    /\ UNCHANGED <<files, full_width, full_height, num_full_scrolls,
                   remaining_height, i, final_image, y_offset, idx, stitched>>
    /\ UNCHANGED <<histVars, mainVars, discVars>>

\* line 173 false: nothing to stitch; through the finally to `return None`
StitchNothing ==
    /\ pc = "stitch"
    /\ ~HasScreenshots(screenshots)
    /\ stitched' = NoImage
    /\ pc' = "finally"
    /\ UNCHANGED <<files, content, raising, full_width, full_height,
                   num_full_scrolls, remaining_height, screenshots, i,
                   final_image, y_offset, idx>>
    /\ UNCHANGED <<histVars, mainVars, discVars>>

\* lines 173-176: the canvas, and the entry of the loop over screenshots
StitchBegin ==
    /\ pc = "stitch"
    /\ HasScreenshots(screenshots)
    /\ final_image' = ImageNew(full_width, full_height)
    /\ y_offset' = 0
    /\ idx' = 0
    /\ pc' = IF screenshots # <<>> THEN "paste" ELSE "return"
    /\ UNCHANGED <<files, content, raising, full_width, full_height,
                   num_full_scrolls, remaining_height, screenshots, i, stitched>>
    /\ UNCHANGED <<histVars, mainVars, discVars>>

\* lines 176-184: one screenshot is opened, the last one cut once more,
\* pasted at y_offset; the loop ends at the last one or once y_offset >= H
StitchStep ==
    /\ pc = "paste" /\ idx < Len(screenshots)
    /\ LET opened == content[screenshots[idx + 1]]
           last == (idx = Len(screenshots) - 1) /\ (remaining_height > 0)
           img == IF last
                  THEN Crop(opened, 0, Len(opened.rows) - remaining_height,
                            opened.width, Len(opened.rows))
                  ELSE opened
           paste_height == PasteHeight(Len(img.rows), full_height, y_offset)
       IN \/ /\ final_image' = Paste(final_image, img, y_offset)
             /\ y_offset' = y_offset + paste_height
             /\ pastes' = Append(pastes, <<y_offset, paste_height>>)
             /\ recropped' = (recropped \/ (last /\ img # opened))
             /\ idx' = idx + 1
             /\ pc' = IF (y_offset + paste_height >= full_height)
                         \/ (idx + 1 = Len(screenshots))
                      THEN "return" ELSE "paste"
             /\ UNCHANGED raising
          \/ \* Image.open or paste raises
             /\ pc' = "finally" /\ raising' = TRUE
             /\ UNCHANGED <<final_image, y_offset, pastes, recropped, idx>>
    /\ UNCHANGED <<files, content, full_width, full_height, num_full_scrolls,
                   remaining_height, screenshots, i, stitched>>
    /\ UNCHANGED <<scrolls, heights, written>>
    /\ UNCHANGED <<mainVars, discVars>>

\* line 185: return final_image.crop((0, 0, full_width, full_height))
StitchReturn ==
    /\ pc = "return"
    /\ stitched' = Crop(final_image, 0, 0, full_width, full_height)
    /\ pc' = "finally"
    /\ UNCHANGED <<files, content, raising, full_width, full_height,
                   num_full_scrolls, remaining_height, screenshots, i,
                   final_image, y_offset, idx>>
    /\ UNCHANGED <<histVars, mainVars, discVars>>

\* lines 186-192: the listed screenshots are removed; then the exception goes
\* on to main's handler, or the call returns
Finally ==
    /\ pc = "finally"
    /\ files' = files \ SeqRange(screenshots)
    /\ pc' = IF raising THEN "except" ELSE "result"
    /\ status' = IF raising THEN [status EXCEPT ![row] = "failed"] ELSE status
    /\ UNCHANGED <<content, raising, row, pdf_files>>
    /\ UNCHANGED <<callVars, histVars, discVars>>

\* ------------------------------------------------------- main, continued
\* lines 242-249: None is reported; a stitched image is saved as PNG,
\* converted and listed, or saving or converting it raises
MainResult ==
    /\ pc = "result"
    /\ \/ /\ stitched.none
          /\ status' = [status EXCEPT ![row] = "none"]
          /\ pc' = "loop"
          /\ ResetCall
          /\ UNCHANGED <<files, pdf_files, raising>>
       \/ /\ ~stitched.none
          /\ files' = files \cup {PngPath(row), PdfPath(row)}
          /\ pdf_files' = Append(pdf_files, row)
          /\ status' = [status EXCEPT ![row] = "created"]
          /\ pc' = "loop"
          /\ ResetCall
          /\ UNCHANGED raising
       \/ \* stitched.save(png_path) raises
          /\ ~stitched.none
          /\ status' = [status EXCEPT ![row] = "unsaved"]
          /\ pc' = "except" /\ raising' = TRUE
          /\ UNCHANGED <<files, content, pdf_files>>
          /\ UNCHANGED <<callVars, histVars>>
       \/ \* img2pdf.convert raises: the PNG and an empty PDF are left
          /\ ~stitched.none
          /\ files' = files \cup {PngPath(row), PdfPath(row)}
          /\ status' = [status EXCEPT ![row] = "unsaved"]
          /\ pc' = "except" /\ raising' = TRUE
          /\ UNCHANGED <<content, pdf_files>>
          /\ UNCHANGED <<callVars, histVars>>
    /\ UNCHANGED row
    /\ UNCHANGED discVars

\* lines 250-252: except Exception: the error is printed and the loop goes on
MainExcept ==
    /\ pc = "except"
    /\ raising' = FALSE
    /\ pc' = AfterExcept
    /\ ResetCall
    /\ UNCHANGED files
    /\ UNCHANGED <<mainVars, discVars>>

\* lines 228, 254-270: the worklist is exhausted: the PDFs are merged and the
\* single ones removed
Finish ==
    /\ pc \in {"loop", "finish"}
    /\ pc = "loop" => row = NPages
    /\ files' = IF pdf_files # <<>>
                THEN (files \ {PdfPath(p) : p \in SeqRange(pdf_files)})
                     \cup {MergedPath}
                ELSE files
    /\ pc' = "done"
    /\ UNCHANGED <<content, raising>>
    /\ UNCHANGED <<callVars, histVars, mainVars, discVars>>

Next ==
    \/ LoopSkip \/ LoopPrepare
    \/ GetDims \/ DiscoverSkip \/ DiscoverShot \/ DiscoverMeasure \/ DiscoverRemove
    \/ Plan \/ FullSlice \/ LeftoverSkip \/ FinalShot \/ FinalCrop
    \/ StitchNothing \/ StitchBegin \/ StitchStep \/ StitchReturn \/ Finally
    \/ MainResult \/ MainExcept \/ Finish

Spec == Init /\ [][Next]_vars

\* ------------------------------------------------------------ properties
\* The call has got past line 149: S is known and the plan is computed
Planned == pc \in {"full", "leftover", "crop", "stitch", "paste", "return",
                   "finally", "result"}
\* The acquisition (lines 153-170) has ended without raising
Acquired == pc \in {"stitch", "paste", "return", "result"}
\* capture_full_page has ended: it returned, or its exception reached main
CallEnded == pc \in {"result", "except"}
\* Every snapshot of the call had the cached height
Nominal == \A k \in 1..Len(heights) : heights[k] = actual_screenshot_height
IsPrefix(s, t) == Len(s) <= Len(t) /\ \A k \in 1..Len(s) : s[k] = t[k]
DocumentRows(H) == [k \in 1..H |-> k - 1]
PlannedOffsets(H, S) ==
    [k \in 1..(H \div S) |-> (k - 1) * S]
    \o (IF H % S > 0 THEN <<H - S>> ELSE <<>>)
PlannedPastes(H, S) ==
    [k \in 1..(H \div S) |-> S] \o (IF H % S > 0 THEN <<H % S>> ELSE <<>>)

\* C1: when every snapshot has the cached height S, the returned image shows,
\* in each row y of 0..H-1, document row y: nothing blank, nothing twice.
C1_OutputIsDocument ==
    (pc = "result" /\ ~stitched.none /\ Nominal)
        => stitched.rows = DocumentRows(full_height)

\* C1, the part the code keeps: the same for pages at least one snapshot high.
C1_OutputIsDocumentTallPage ==
    (pc = "result" /\ ~stitched.none /\ Nominal
        /\ full_height >= actual_screenshot_height)
        => stitched.rows = DocumentRows(full_height)

\* C2: the offsets scrolled to are 0, S, ..., (H div S - 1)*S, then H - S iff
\* H mod S > 0: always a prefix of that list, and the whole list once the
\* acquisition has ended.
C2_ScrollPlan ==
    Planned =>
        /\ IsPrefix(scrolls, PlannedOffsets(full_height, actual_screenshot_height))
        /\ Acquired =>
              scrolls = PlannedOffsets(full_height, actual_screenshot_height)

C2_Witness ==
    /\ pc = "stitch"
    /\ full_height \div actual_screenshot_height >= 2
    /\ full_height % actual_screenshot_height > 0
    /\ Len(scrolls) = (full_height \div actual_screenshot_height) + 1

\* C3: for 0 < H <= S the plan is one slice, the final one, scrolled to at
\* offset 0; and no offset passed to scrollTo is negative.
C3_ShortPageOneFinalSliceAtZero ==
    /\ \A k \in 1..Len(scrolls) : scrolls[k] >= 0
    /\ (Acquired /\ full_height > 0 /\ full_height <= actual_screenshot_height)
          => /\ scrolls = <<0>>
             /\ num_full_scrolls = 0 /\ remaining_height > 0

\* C4: once capture_full_page has ended, by return or by exception, no temp
\* file it wrote exists.
C4_NoTempFileLeft ==
    CallEnded => written \cap files = {}

\* C5: a call that took no slice returns None, and a returned image is
\* exactly full_width x full_height and not blank.
C5_NoneOrFullSize ==
    pc = "result" =>
        /\ screenshots = <<>> => stitched.none
        /\ ~stitched.none =>
              /\ stitched.width = full_width
              /\ Len(stitched.rows) = full_height
              /\ \E k \in 1..Len(stitched.rows) : stitched.rows[k] # Unpainted

C5_Witness ==
    /\ pc = "result" /\ ~stitched.none
    /\ Len(screenshots) >= 2 /\ ~Nominal
    /\ row = 2 /\ status[1] = "none"

\* C6: a row whose preparation or capture failed (exception, or None
\* returned) has no PDF listed and no PNG saved, and the loop still goes
\* through every later row: main ends with no row left unprocessed.
C6_FailureIsPageScoped ==
    /\ \A p \in Pages :
          status[p] \in {"failed", "none"} =>
              /\ p \notin SeqRange(pdf_files)
              /\ PngPath(p) \notin files
    /\ pc = "done" => \A p \in Pages : status[p] \notin {"pending", "capturing"}

C6_Witness ==
    /\ pc = "done"
    /\ status[1] = "failed"
    /\ status[2] = "created"

C8_ShortCoverageIsFailure ==
    (pc = "result" /\ ~stitched.none
        /\ \E k \in 1..Len(heights) : heights[k] < actual_screenshot_height)
        => \A k \in 1..Len(stitched.rows) : stitched.rows[k] # Unpainted

\* C9: when H mod S > 0, every offset scrolled to is at most H - S, the
\* offsets strictly increase, and the last one of the acquisition is H - S.
C9_OffsetsBoundedIncreasing ==
    (Planned /\ full_height % actual_screenshot_height > 0) =>
        /\ \A k \in 1..Len(scrolls) :
              scrolls[k] <= full_height - actual_screenshot_height
        /\ \A k \in 1..(Len(scrolls) - 1) : scrolls[k] < scrolls[k + 1]
        /\ Acquired =>
              scrolls[Len(scrolls)] = full_height - actual_screenshot_height

C9_Witness ==
    /\ pc = "stitch"
    /\ full_height % actual_screenshot_height > 0
    /\ Len(scrolls) = 3

\* C10: 0 <= y_offset <= H always; every paste is at a y_offset below H; the
\* crop of line 179 never changes the already cropped final slice; and when
\* every snapshot has the cached height the loop ends with y_offset = H, the
\* full slices having contributed S rows each and the final one H mod S.
C10_YOffsetWithinPage ==
    /\ 0 <= y_offset /\ y_offset <= full_height
    /\ \A k \in 1..Len(pastes) : pastes[k][1] < full_height
    /\ ~recropped
    /\ (pc = "return" /\ Nominal) =>
          /\ y_offset = full_height
          /\ [k \in 1..Len(pastes) |-> pastes[k][2]]
                = PlannedPastes(full_height, actual_screenshot_height)

C10_Witness ==
    /\ pc = "return" /\ Nominal
    /\ num_full_scrolls >= 2 /\ remaining_height > 0
    /\ y_offset = full_height
====
